---- MODULE Spec2Model ----
\* rtracer (src/main.rs): Canvas (draw, draw_area), Sphere::intersect and
\* Raytracer::render, modelled as a state machine.
\*
\* Numbers.  Coordinates, radii and canvas sizes are small integers, on which
\* the f32 sums, differences and products of the code are exact.  The one
\* irrational value, sqrt(radius2 - proj_dist2), is kept exactly: a scalar is a
\* record [a, b, n] standing for a + b * sqrt(n); its sign and order are decided
\* by integer arithmetic.  All u32 values stay far below 2^32, so no u32
\* addition of the code wraps or overflows within the bounds used here.
EXTENDS Integers, Sequences, FiniteSets

VARIABLES
    width,       \* Canvas.width
    height,      \* Canvas.height
    image,       \* Canvas.image: [cell -> pixel], cell = <<x, y>>
    renderables, \* Scene.renderables (sequence of spheres, insertion order)
    pc,          \* "idle", "draw_area", "render", "render_any", "done", "panic"
    call,        \* the call in progress and its arguments
    i,           \* draw_area: loop index (0-based, as in the code)
    x,           \* render: outer loop variable
    y,           \* render: inner loop variable
    k,           \* render: index of the next object of the scene (1-based)
    result,      \* intersect: the value returned
    image0,      \* history: image when the call was entered
    drawlog,     \* history: the draws render has issued
    queries,     \* history: the intersect queries render has issued
    pending      \* order-free render: pixels not yet processed

vars == <<width, height, image, renderables, pc, call, i, x, y, k, result,
          image0, drawlog, queries, pending>>

-----------------------------------------------------------------------------
\* Bounds of the model.

MaxDim == 2      \* canvas width and height range over 1..MaxDim
MaxLen == 3      \* draw_area: colour sequences of length 0..MaxLen
MaxRadius == 2   \* intersect: radius in 1..MaxRadius
MaxObjects == 2  \* scenes of 0..MaxObjects spheres
MaxCoord == 1    \* intersect: vector components in -MaxCoord..MaxCoord

-----------------------------------------------------------------------------
\* Color

NewColor(red, green, blue) == [red |-> red, green |-> green, blue |-> blue]

ToRgba(color) == <<color.red, color.green, color.blue, 0>>

HitColor == NewColor(0, 255, 0)

\* main's backdrop: row y of a canvas of the given height, channels
\* interpolated with t = y / height and truncated to a byte.
BackdropColor(row, h) ==
    NewColor((122 * (h - row) + 220 * row) \div h,
             (170 * (h - row) + 220 * row) \div h,
             (255 * (h - row) + 230 * row) \div h)

\* The colours callers hand to draw and draw_area.
Palette == {BackdropColor(0, 1), NewColor(220, 220, 230)}

-----------------------------------------------------------------------------
\* Canvas

Cells(w, h) == (0 .. w - 1) \X (0 .. h - 1)

\* Canvas::new: a zeroed buffer.
NewImage(w, h) == [c \in Cells(w, h) |-> <<0, 0, 0, 0>>]

\* The canvas main builds before render: draw_area(0, 0, width, backdrop).
BackdropImage(w, h) == [c \in Cells(w, h) |-> ToRgba(BackdropColor(c[2], h))]

\* image.put_pixel(x, y, pixel)
PutPixel_clearnext(img, px, py, pixel) ==
    [c \in DOMAIN img |->
        IF c = <<px, py>> THEN pixel
        ELSE IF c = <<px + 1, py>> THEN <<0, 0, 0, 0>>
        ELSE img[c]]

PutPixel(img, px, py, pixel) == [img EXCEPT ![<<px, py>>] = pixel]

\* The bounds test of draw.
OutOfCanvas_gt(w, h, px, py) == px > w \/ py > h

OutOfCanvas(w, h, px, py) == px >= w \/ py >= h

\* Canvas::draw: panics outside the canvas, else writes the pixel.
Draw(img, w, h, px, py, color) ==
    IF OutOfCanvas(w, h, px, py)
    THEN [fault |-> TRUE, image |-> img]
    ELSE [fault |-> FALSE, image |-> PutPixel(img, px, py, ToRgba(color))]

\* Canvas::draw_area: the test made before anything is drawn.  A block width
\* of 0 panics as well: by this test, or by the division in it.
AreaRejected(w, h, ax, ay, bw, n) ==
    \/ ax + bw > w
    \/ bw = 0
    \/ ay + (n \div bw) > h

\* Canvas::draw_area: the cell of element idx (0-based).
AreaX_nooffset(ax, idx, bw) == idx % bw

AreaX(ax, idx, bw) == ax + (idx % bw)

AreaY(ay, idx, bw) == ay + (idx \div bw)

-----------------------------------------------------------------------------
\* Vec3 and scalars

Vec(vx, vy, vz) == <<vx, vy, vz>>

Sub(u, v) == <<u[1] - v[1], u[2] - v[2], u[3] - v[3]>>

Dot(u, v) == u[1] * v[1] + u[2] * v[2] + u[3] * v[3]

\* The scalar a + b * sqrt(n), n >= 0.
Scalar(a, b, n) == [a |-> a, b |-> b, n |-> n]

\* sqrt(n)
Sqrt(n) == Scalar(0, 1, n)

\* v + s and v - s for an integer v and a scalar s
AddTo(v, s) == Scalar(v + s.a, s.b, s.n)

SubFrom(v, s) == Scalar(v - s.a, 0 - s.b, s.n)

\* a + b * sqrt(n) < 0
NegParts(a, b, n) ==
    IF b = 0 \/ n = 0 THEN a < 0
    ELSE IF b > 0 THEN a < 0 /\ a * a > b * b * n
    ELSE a < 0 \/ a * a < b * b * n

IsNegative(s) == NegParts(s.a, s.b, s.n)

\* s < t, for scalars over the same radicand
Less(s, t) == NegParts(s.a - t.a, s.b - t.b, s.n)

-----------------------------------------------------------------------------
\* Ray, Sphere

NewRay(origin, direction) == [origin |-> origin, direction |-> direction]

NewSphere(center, radius) == [center |-> center, radius |-> radius]

None(line) == [hit |-> FALSE, t |-> Scalar(0, 0, 0), exit |-> line]

Some(t) == [hit |-> TRUE, t |-> t, exit |-> 181]

\* `t_ca = L . V`
RayToCenter(sphere, ray) == Dot(Sub(sphere.center, ray.origin), ray.direction)

\* `d^2 = L . L - t_ca^2`
ProjDist2(sphere, ray) ==
    LET center_dir == Sub(sphere.center, ray.origin)
    IN Dot(center_dir, center_dir) - RayToCenter(sphere, ray) * RayToCenter(sphere, ray)

\* The early-out on the projection.
PointsAway_le(ray_to_center) == ray_to_center <= 0

PointsAway(ray_to_center) == ray_to_center < 0

\* The miss test.
Misses_ge(proj_dist2, radius2) == proj_dist2 >= radius2

Misses(proj_dist2, radius2) == proj_dist2 > radius2

\* The test on the two intersections.
BothBehind_or(hit_in, hit_out) == IsNegative(hit_in) \/ IsNegative(hit_out)

BothBehind(hit_in, hit_out) == IsNegative(hit_in) /\ IsNegative(hit_out)

\* Sphere::intersect.  `exit` is the line of the return taken.
Intersect(sphere, ray) ==
    LET ray_to_center == RayToCenter(sphere, ray)
        proj_dist2 == ProjDist2(sphere, ray)
        radius2 == sphere.radius * sphere.radius
        penetration_halfway == Sqrt(radius2 - proj_dist2)
        hit_in == SubFrom(ray_to_center, penetration_halfway)
        hit_out == AddTo(ray_to_center, penetration_halfway)
    IN  IF PointsAway(ray_to_center) THEN None(154)
        ELSE IF Misses(proj_dist2, radius2) THEN None(164)
        ELSE IF BothBehind(hit_in, hit_out) THEN None(177)
        ELSE Some(IF Less(hit_in, hit_out) THEN hit_in ELSE hit_out)

-----------------------------------------------------------------------------
\* Inputs

Dims == 1 .. MaxDim

\* Coordinates handed to draw and draw_area: inside and outside the canvas.
DrawCoords == 0 .. MaxDim

BlockWidths == 0 .. MaxDim + 1

ColorSeqs == UNION {[1 .. n -> Palette] : n \in 0 .. MaxLen}

\* Scene spheres: centres in the plane z = 0 on and around the canvas, and one
\* sphere centred behind that plane.
SceneSpheres ==
    {NewSphere(Vec(0, 0, 0), 1), NewSphere(Vec(1, 0, 0), 1), NewSphere(Vec(0, 1, 0), 1),
     NewSphere(Vec(1, 1, 0), 2), NewSphere(Vec(2, 2, 0), 1), NewSphere(Vec(0, 0, -1), 2)}

Scenes == UNION {[1 .. n -> SceneSpheres] : n \in 0 .. MaxObjects}

\* Scenes of the render that visits the pixels in any order: disjoint,
\* overlapping and hidden spheres.
AnyOrderSpheres ==
    {NewSphere(Vec(0, 0, 0), 1), NewSphere(Vec(1, 0, 0), 1), NewSphere(Vec(1, 1, 0), 2),
     NewSphere(Vec(0, 0, -1), 2)}

AnyOrderScenes == UNION {[1 .. n -> AnyOrderSpheres] : n \in 0 .. MaxObjects}

Coords == (0 - MaxCoord) .. MaxCoord

Points == Coords \X Coords \X Coords

\* Unit directions with integer components.
UnitDirections ==
    {Vec(1, 0, 0), Vec(-1, 0, 0), Vec(0, 1, 0), Vec(0, -1, 0), Vec(0, 0, 1), Vec(0, 0, -1)}

NoCall == [op |-> "none"]

NoResult == None(0)

-----------------------------------------------------------------------------
\* Initial states

\* A canvas as main has it: fresh from Canvas::new, or filled with the backdrop.
InitImage ==
    /\ width \in Dims
    /\ height \in Dims
    /\ image \in {NewImage(width, height), BackdropImage(width, height)}
    /\ image0 = image

InitRest ==
    /\ i = 0
    /\ x = 0
    /\ y = 0
    /\ k = 1
    /\ result = NoResult
    /\ drawlog = <<>>
    /\ queries = <<>>

\* A canvas and no call yet.
InitCanvas ==
    /\ InitImage
    /\ InitRest
    /\ renderables = <<>>
    /\ pc = "idle"
    /\ call = NoCall
    /\ pending = {}

\* A sphere and a ray, intersect not yet called.
InitIntersect ==
    /\ width = 1
    /\ height = 1
    /\ image = NewImage(1, 1)
    /\ image0 = image
    /\ InitRest
    /\ renderables = <<>>
    /\ pc = "idle"
    /\ \E c \in Points, r \in 1 .. MaxRadius, o \in Points, d \in UnitDirections :
            call = [op |-> "intersect", sphere |-> NewSphere(c, r), ray |-> NewRay(o, d)]
    /\ pending = {}

\* Raytracer::new(scene) and a canvas, at the entry of render.
InitRender ==
    /\ InitImage
    /\ InitRest
    /\ renderables \in Scenes
    /\ pc = "render"
    /\ call = [op |-> "render"]
    /\ pending = {}

\* The same, for a render that visits the pixels in any order.
InitRenderAny ==
    /\ InitImage
    /\ InitRest
    /\ renderables \in AnyOrderScenes
    /\ pc = "render_any"
    /\ call = [op |-> "render_any"]
    /\ pending = Cells(width, height)

-----------------------------------------------------------------------------
\* Canvas::draw

DrawCall(px, py, color) ==
    /\ pc = "idle"
    /\ call' = [op |-> "draw", x |-> px, y |-> py, color |-> color]
    /\ image0' = image
    /\ LET d == Draw(image, width, height, px, py, color)
       IN  /\ image' = d.image
           /\ pc' = IF d.fault THEN "panic" ELSE "done"
    /\ UNCHANGED <<width, height, renderables, i, x, y, k, result, drawlog, queries, pending>>

\* Canvas::draw_area: entry and the test before the loop
DrawAreaCall(ax, ay, bw, cs) ==
    /\ pc = "idle"
    /\ call' = [op |-> "draw_area", x |-> ax, y |-> ay, width |-> bw, colors |-> cs]
    /\ image0' = image
    /\ i' = 0
    /\ pc' = IF AreaRejected(width, height, ax, ay, bw, Len(cs)) THEN "panic" ELSE "draw_area"
    /\ UNCHANGED <<width, height, image, renderables, x, y, k, result, drawlog, queries, pending>>

\* Canvas::draw_area: one iteration of the loop
DrawAreaStep ==
    /\ pc = "draw_area"
    /\ i < Len(call.colors)
    /\ LET d == Draw(image, width, height,
                     AreaX(call.x, i, call.width), AreaY(call.y, i, call.width),
                     call.colors[i + 1])
       IN  /\ image' = d.image
           /\ pc' = IF d.fault THEN "panic" ELSE "draw_area"
           /\ i' = IF d.fault THEN i ELSE i + 1
    /\ UNCHANGED <<width, height, renderables, call, x, y, k, result, image0, drawlog,
                   queries, pending>>

\* Canvas::draw_area: the loop is exhausted
DrawAreaReturn ==
    /\ pc = "draw_area"
    /\ i = Len(call.colors)
    /\ pc' = "done"
    /\ UNCHANGED <<width, height, image, renderables, call, i, x, y, k, result, image0,
                   drawlog, queries, pending>>

NextCanvas ==
    \/ \E px \in DrawCoords, py \in DrawCoords, color \in Palette : DrawCall(px, py, color)
    \/ \E ax \in DrawCoords, ay \in DrawCoords, bw \in BlockWidths, cs \in ColorSeqs :
            DrawAreaCall(ax, ay, bw, cs)
    \/ DrawAreaStep
    \/ DrawAreaReturn

SpecCanvas == InitCanvas /\ [][NextCanvas]_vars

-----------------------------------------------------------------------------
\* Sphere::intersect, called on its own

IntersectCall ==
    /\ pc = "idle"
    /\ call.op = "intersect"
    /\ result' = Intersect(call.sphere, call.ray)
    /\ pc' = "done"
    /\ UNCHANGED <<width, height, image, renderables, call, i, x, y, k, image0, drawlog,
                   queries, pending>>

NextIntersect == IntersectCall

SpecIntersect == InitIntersect /\ [][NextIntersect]_vars

-----------------------------------------------------------------------------
\* Raytracer::render

\* The ray of pixel (px, py).
PixelRay(px, py) == NewRay(Vec(px, py, 0), Vec(0, 0, 1))

\* The cell render draws when the ray of pixel (px, py) hits.
DrawTarget_swapped(px, py) == <<py, px>>

DrawTarget(px, py) == <<px, py>>

\* `for v in 0..n`: v is still in the range.
InRange_inclusive(v, n) == v <= n

InRange(v, n) == v < n

\* The body of the loop over the objects, for object idx at pixel (x, y).
RenderObject ==
    /\ pc = "render"
    /\ k <= Len(renderables)
    /\ LET r == Intersect(renderables[k], PixelRay(x, y))
           t == DrawTarget(x, y)
           d == Draw(image, width, height, t[1], t[2], HitColor)
       IN  /\ queries' = Append(queries, <<x, y, k>>)
           /\ IF r.hit
              THEN /\ image' = d.image
                   /\ drawlog' = Append(drawlog, [at |-> <<x, y>>, target |-> t])
                   /\ pc' = IF d.fault THEN "panic" ELSE "render"
              ELSE UNCHANGED <<image, drawlog, pc>>
    /\ k' = k + 1
    /\ UNCHANGED <<width, height, renderables, call, i, x, y, result, image0, pending>>

\* The objects are exhausted: the next y, or the next x.
RenderNextPixel ==
    /\ pc = "render"
    /\ k > Len(renderables)
    /\ IF InRange(y + 1, height)
       THEN /\ y' = y + 1
            /\ x' = x
       ELSE /\ InRange(x + 1, width)
            /\ x' = x + 1
            /\ y' = 0
    /\ k' = 1
    /\ UNCHANGED <<width, height, image, renderables, pc, call, i, result, image0, drawlog,
                   queries, pending>>

\* Both loops are exhausted.
RenderReturn ==
    /\ pc = "render"
    /\ k > Len(renderables)
    /\ ~InRange(y + 1, height)
    /\ ~InRange(x + 1, width)
    /\ pc' = "done"
    /\ UNCHANGED <<width, height, image, renderables, call, i, x, y, k, result, image0,
                   drawlog, queries, pending>>

NextRender == RenderObject \/ RenderNextPixel \/ RenderReturn

SpecRender == InitRender /\ [][NextRender]_vars

-----------------------------------------------------------------------------
\* render, the pixels taken in any order

\* The loop over the objects at pixel (px, py), from object idx on.
RECURSIVE PixelBody(_, _, _, _)
PixelBody(img, px, py, idx) ==
    IF idx > Len(renderables) THEN [fault |-> FALSE, image |-> img]
    ELSE LET r == Intersect(renderables[idx], PixelRay(px, py))
             t == DrawTarget(px, py)
             d == Draw(img, width, height, t[1], t[2], HitColor)
         IN  IF ~r.hit THEN PixelBody(img, px, py, idx + 1)
             ELSE IF d.fault THEN d
             ELSE PixelBody(d.image, px, py, idx + 1)

\* The two loops over the pixels in the order of the code (x outer, y inner),
\* from pixel (cx, cy) on.
RECURSIVE RenderFrom(_, _, _)
RenderFrom(img, cx, cy) ==
    IF ~InRange(cx, width) THEN img
    ELSE IF ~InRange(cy, height) THEN RenderFrom(img, cx + 1, 0)
    ELSE RenderFrom(PixelBody(img, cx, cy, 1).image, cx, cy + 1)

RenderAnyPixel(p) ==
    /\ pc = "render_any"
    /\ p \in pending
    /\ LET b == PixelBody(image, p[1], p[2], 1)
       IN  /\ image' = b.image
           /\ pc' = IF b.fault THEN "panic" ELSE "render_any"
    /\ pending' = pending \ {p}
    /\ UNCHANGED <<width, height, renderables, call, i, x, y, k, result, image0, drawlog,
                   queries>>

RenderAnyReturn ==
    /\ pc = "render_any"
    /\ pending = {}
    /\ pc' = "done"
    /\ UNCHANGED <<width, height, image, renderables, call, i, x, y, k, result, image0,
                   drawlog, queries, pending>>

NextRenderAny ==
    \/ \E p \in Cells(width, height) : RenderAnyPixel(p)
    \/ RenderAnyReturn

SpecRenderAny == InitRenderAny /\ [][NextRenderAny]_vars

-----------------------------------------------------------------------------
\* Properties: Canvas (checked under SpecCanvas)

Returned == pc \in {"done", "panic"}

PixelColor(pixel) == NewColor(pixel[1], pixel[2], pixel[3])

\* C2: draw(x, y, color) faults if and only if x >= width or y >= height; a
\* draw that succeeds sets pixel (x, y) to color and leaves every other pixel
\* as it was; a draw that faults leaves every pixel as it was.
C2_DrawFaultsIffOutside ==
    (call.op = "draw" /\ Returned) =>
        /\ (pc = "panic") <=> (call.x >= width \/ call.y >= height)
        /\ pc = "done" =>
              \A c \in Cells(width, height) :
                  IF c = <<call.x, call.y>>
                  THEN PixelColor(image[c]) = call.color
                  ELSE image[c] = image0[c]
        /\ pc = "panic" => image = image0

\* A draw at the last cell (width-1, height-1) of a canvas with more than one
\* cell has succeeded and changed that cell.
C2_Witness ==
    /\ call.op = "draw"
    /\ pc = "done"
    /\ call.x = width - 1
    /\ call.y = height - 1
    /\ width * height > 1
    /\ image # image0

\* draw(x + i % block_width, y + i / block_width, colors[i]) for
\* i = idx, idx + 1, ..., stopping at the first draw that faults.
RECURSIVE SeqDraws(_, _, _, _, _, _)
SeqDraws(img, ax, ay, bw, cs, idx) ==
    IF idx >= Len(cs) THEN [fault |-> FALSE, image |-> img]
    ELSE LET d == Draw(img, width, height, ax + (idx % bw), ay + (idx \div bw), cs[idx + 1])
         IN  IF d.fault THEN d ELSE SeqDraws(d.image, ax, ay, bw, cs, idx + 1)

SameAsSeqDraws ==
    LET ref == SeqDraws(image0, call.x, call.y, call.width, call.colors, 0)
    IN  /\ (pc = "panic") <=> ref.fault
        /\ image = ref.image

\* C3 as claimed: draw_area with block_width > 0 is equivalent to the draws of
\* its elements in sequence order: both succeed or both fault, and both leave
\* the same pixels.
C3_EquivalentToDraws ==
    (call.op = "draw_area" /\ call.width > 0 /\ Returned) => SameAsSeqDraws

\* C3 as amended: the equivalence holds when x + block_width <= width and
\* y + n / block_width <= height (integer division); otherwise draw_area
\* faults and leaves every pixel as it was, whatever the draws would do.
C3_EquivalentWhenAccepted ==
    (call.op = "draw_area" /\ call.width > 0 /\ Returned) =>
        IF call.x + call.width <= width
              /\ call.y + (Len(call.colors) \div call.width) <= height
        THEN SameAsSeqDraws
        ELSE pc = "panic" /\ image = image0

\* A draw_area of three elements in a block two columns wide has returned
\* normally after changing pixels.
C3_Witness ==
    /\ call.op = "draw_area"
    /\ pc = "done"
    /\ call.width = 2
    /\ Len(call.colors) = 3
    /\ image # image0

\* Some element of the block lies outside the canvas.
ExtendsPast ==
    \E idx \in 0 .. Len(call.colors) - 1 :
        \/ call.x + (idx % call.width) >= width
        \/ call.y + (idx \div call.width) >= height

\* C4: a draw_area (block_width > 0) whose block extends past the canvas
\* faults, and at the fault no pixel has been modified by the call.
C4_FaultIsTotal ==
    (call.op = "draw_area" /\ call.width > 0 /\ Returned /\ ExtendsPast) =>
        /\ pc = "panic"
        /\ i = 0
        /\ image = image0

-----------------------------------------------------------------------------
\* Properties: Sphere::intersect (checked under SpecIntersect)

\* proj = dot(center - origin, direction)
Proj(sphere, ray) ==
    (sphere.center[1] - ray.origin[1]) * ray.direction[1]
        + (sphere.center[2] - ray.origin[2]) * ray.direction[2]
        + (sphere.center[3] - ray.origin[3]) * ray.direction[3]

\* |center - origin|^2
DistSq(sphere, ray) ==
    (sphere.center[1] - ray.origin[1]) * (sphere.center[1] - ray.origin[1])
        + (sphere.center[2] - ray.origin[2]) * (sphere.center[2] - ray.origin[2])
        + (sphere.center[3] - ray.origin[3]) * (sphere.center[3] - ray.origin[3])

\* perp_dist_sq = dot(center_dir, center_dir) - proj^2
PerpDistSq(sphere, ray) == DistSq(sphere, ray) - Proj(sphere, ray) * Proj(sphere, ray)

RadiusSq(sphere) == sphere.radius * sphere.radius

IntersectReturned == call.op = "intersect" /\ pc = "done"

\* The ray parameters of the two points where the line meets the sphere.
TNear(sphere, ray) == Scalar(Proj(sphere, ray), -1, RadiusSq(sphere) - PerpDistSq(sphere, ray))

TFar(sphere, ray) == Scalar(Proj(sphere, ray), 1, RadiusSq(sphere) - PerpDistSq(sphere, ray))

\* C5: a hit returns the nearest ray parameter t >= 0 at which the ray meets
\* the sphere; the value returned is never negative.
C5_HitDistanceNonNegative ==
    (IntersectReturned /\ result.hit) =>
        /\ ~IsNegative(result.t)
        /\ result.t = IF IsNegative(TNear(call.sphere, call.ray))
                      THEN TFar(call.sphere, call.ray)
                      ELSE TNear(call.sphere, call.ray)

\* C6 as claimed: perp_dist_sq = radius^2 is a hit, perp_dist_sq > radius^2
\* is a miss.
C6_TangentIsHit ==
    IntersectReturned =>
        /\ PerpDistSq(call.sphere, call.ray) = RadiusSq(call.sphere) => result.hit
        /\ PerpDistSq(call.sphere, call.ray) > RadiusSq(call.sphere) => ~result.hit

\* C6 as amended: perp_dist_sq = radius^2 is a hit when proj >= 0 (with
\* proj < 0 it is a miss); perp_dist_sq > radius^2 is a miss.
C6_TangentIsHitAhead ==
    IntersectReturned =>
        /\ PerpDistSq(call.sphere, call.ray) = RadiusSq(call.sphere) =>
              (result.hit <=> Proj(call.sphere, call.ray) >= 0)
        /\ PerpDistSq(call.sphere, call.ray) > RadiusSq(call.sphere) => ~result.hit

\* A tangent ray with the sphere strictly ahead of its origin was a hit.
C6_Witness ==
    /\ IntersectReturned
    /\ PerpDistSq(call.sphere, call.ray) = RadiusSq(call.sphere)
    /\ Proj(call.sphere, call.ray) > 0
    /\ result.hit

\* C10: intersect hits if and only if proj >= 0 and perp_dist_sq <= radius^2;
\* past the proj < 0 early-out t_far is >= 0, and the return of the check
\* `hit_in < 0 && hit_out < 0` is never taken.
C10_HitIffAheadAndNear ==
    IntersectReturned =>
        LET ahead == Proj(call.sphere, call.ray) >= 0
            near == PerpDistSq(call.sphere, call.ray) <= RadiusSq(call.sphere)
        IN  /\ result.hit <=> (ahead /\ near)
            /\ (ahead /\ near) => ~IsNegative(TFar(call.sphere, call.ray))
            /\ result.exit # 177
            /\ ~ahead => result.exit = 154

\* A ray whose origin is strictly inside the sphere, with a negative
\* projection, was a miss.
C10_Witness ==
    /\ IntersectReturned
    /\ DistSq(call.sphere, call.ray) < RadiusSq(call.sphere)
    /\ Proj(call.sphere, call.ray) < 0
    /\ ~result.hit

-----------------------------------------------------------------------------
\* Properties: Raytracer::render (checked under SpecRender, FairRender and
\* SpecRenderAny)

Objects == 1 .. Len(renderables)

\* (x - Sx)^2 + (y - Sy)^2 <= r^2
InSilhouette(c, sphere) ==
    (c[1] - sphere.center[1]) * (c[1] - sphere.center[1])
        + (c[2] - sphere.center[2]) * (c[2] - sphere.center[2])
            <= sphere.radius * sphere.radius

OnSilhouette(c, sphere) ==
    (c[1] - sphere.center[1]) * (c[1] - sphere.center[1])
        + (c[2] - sphere.center[2]) * (c[2] - sphere.center[2])
            = sphere.radius * sphere.radius

AllInPlane == \A j \in Objects : renderables[j].center[3] = 0

\* C1: for a scene of spheres centred in the plane z = 0, after render a pixel
\* holds the hit colour (0, 255, 0) if and only if it lies in the silhouette
\* of some sphere (boundary included); every other pixel holds what it held
\* before render.
C1_SilhouettesDrawn ==
    (call.op = "render" /\ pc = "done" /\ AllInPlane) =>
        \A c \in Cells(width, height) :
            LET inside == \E j \in Objects : InSilhouette(c, renderables[j])
            IN  /\ PixelColor(image[c]) = NewColor(0, 255, 0) <=> inside
                /\ ~inside => image[c] = image0[c]

\* A render has ended with a pixel drawn on the boundary of a silhouette and
\* another pixel outside every silhouette.
C1_Witness ==
    /\ call.op = "render"
    /\ pc = "done"
    /\ AllInPlane
    /\ \E c \in Cells(width, height) :
          /\ \E j \in Objects : OnSilhouette(c, renderables[j])
          /\ \A j \in Objects : ~InSilhouette(c, renderables[j]) \/ OnSilhouette(c, renderables[j])
          /\ PixelColor(image[c]) = NewColor(0, 255, 0)
    /\ \E c \in Cells(width, height) : \A j \in Objects : ~InSilhouette(c, renderables[j])

\* The number of draws render has issued to cell c.
Writes(c) == Cardinality({j \in 1 .. Len(drawlog) : drawlog[j].target = c})

OwnCellOnly == \A j \in 1 .. Len(drawlog) : drawlog[j].target = drawlog[j].at

\* C7 as claimed: in one render every pixel is written exactly once, by the
\* step that processes that pixel.
C7_WrittenExactlyOnce ==
    (call.op = "render" /\ pc = "done") =>
        /\ \A c \in Cells(width, height) : Writes(c) = 1
        /\ OwnCellOnly

\* C7 as amended: in one render every pixel is written once for each scene
\* object whose intersect reports a hit for the pixel's ray (not at all when
\* none hits, more than once when several hit), and every write issued while
\* pixel (x, y) is processed targets cell (x, y).
C7_WrittenOncePerHit ==
    /\ call.op = "render" => OwnCellOnly
    /\ (call.op = "render" /\ pc = "done") =>
          \A c \in Cells(width, height) :
              Writes(c) = Cardinality({j \in Objects :
                              Intersect(renderables[j], PixelRay(c[1], c[2])).hit})

\* A render has ended with one pixel written twice and another never.
C7_Witness ==
    /\ call.op = "render"
    /\ pc = "done"
    /\ \E c \in Cells(width, height) : Writes(c) = 2
    /\ \E c \in Cells(width, height) : Writes(c) = 0

\* C8: the canvas render produces does not depend on the order in which the
\* pixels are visited: in any order, every pixel already visited holds what
\* the render in the order of the code leaves there, every pixel not yet
\* visited holds what it held before, and so the final canvases are equal.
C8_OrderIndependent ==
    call.op = "render_any" =>
        LET inOrder == RenderFrom(image0, 0, 0)
        IN  /\ pc # "panic"
            /\ \A c \in Cells(width, height) :
                  image[c] = IF c \in pending THEN image0[c] ELSE inOrder[c]
            /\ pc = "done" => image = inOrder

\* Every pixel but (0, 0), the first in the order of the code, has been
\* visited, and the canvas has changed.
C8_Witness ==
    /\ call.op = "render_any"
    /\ width * height >= 4
    /\ pending = {<<0, 0>>}
    /\ image # image0
    /\ Len(renderables) >= 2

\* The steps render has left: one per object and one more, for each pixel
\* from (x, y) on, less the objects of (x, y) already done.
C9_StepsLeft ==
    IF pc = "render"
    THEN (width * height - (x * height + y)) * (Len(renderables) + 1) - (k - 1)
    ELSE 0

\* Every draw issued is inside the canvas, no fault has been raised, render
\* has a next step until it has returned, and at the end there has been one
\* query per object per pixel, the objects of a pixel in insertion order.
C9_Safe ==
    call.op = "render" =>
        /\ pc # "panic"
        /\ pc = "done" \/ ENABLED NextRender
        /\ C9_StepsLeft >= 0
        /\ \A j \in 1 .. Len(drawlog) :
              drawlog[j].target[1] < width /\ drawlog[j].target[2] < height
        /\ pc = "done" =>
              /\ Len(queries) = width * height * Len(renderables)
              /\ \A c \in Cells(width, height), n \in Objects :
                    Cardinality({j \in 1 .. Len(queries) : queries[j] = <<c[1], c[2], n>>}) = 1
              /\ \A j1, j2 \in 1 .. Len(queries) :
                    (j1 < j2 /\ queries[j1][1] = queries[j2][1]
                             /\ queries[j1][2] = queries[j2][2])
                        => queries[j1][3] < queries[j2][3]

C9_Frame ==
    /\ width' = width
    /\ height' = height
    /\ renderables' = renderables
    /\ C9_StepsLeft' < C9_StepsLeft

\* C9: render terminates without a bounds violation: it always has a next
\* step until it has returned, every step lowers the number of steps left,
\* every draw has x < width and y < height, there is exactly one intersect
\* query per object per pixel (objects in insertion order), and neither the
\* canvas dimensions nor the scene change.
C9_RenderTerminatesInBounds ==
    /\ []C9_Safe
    /\ [][C9_Frame]_vars

\* A render of a scene of two objects on a canvas of several pixels has ended,
\* having drawn.
C9_Witness ==
    /\ call.op = "render"
    /\ pc = "done"
    /\ Len(renderables) >= 2
    /\ width * height >= 4
    /\ Len(drawlog) > 0

====
